---- MODULE Spec2Model ----
(***************************************************************************)
(* Multiscale projective coordinates (ctralie/AudioBiphonation).           *)
(*                                                                         *)
(* Two source variants are modelled side by side:                          *)
(*   "root"    : src/ProjectiveCoordinates.py                              *)
(*   "dreimac" : src/dreimac/ProjectiveCoordinates.py                      *)
(*                                                                         *)
(* Arrays are functions on 0..n-1, as numpy indexes them.  Each Python     *)
(* function is modelled by the record of its locals (its frame); a frame   *)
(* whose pc is "idle" belongs to a function that is not running.           *)
(***************************************************************************)
EXTENDS Integers, Sequences, FiniteSets, TLC

VARIABLES greedy, ppca, proj

vars == <<greedy, ppca, proj>>

(***************************************************************************)
(* Bounds of the model.                                                    *)
(***************************************************************************)
MaxN == 3
MaxDist == 2
MaxCoord == 2
MaxClasses == 2
PercDen == 2
MaxL == 4
MaxSelectN == 1

(***************************************************************************)
(* numpy helpers.                                                          *)
(***************************************************************************)
Idle == [pc |-> "idle"]

\* the length of a one-dimensional array (shape[0] of a matrix)
Size(a) == Cardinality(DOMAIN a)

SetMax(S) == CHOOSE x \in S : \A y \in S : y <= x

SetMin(S) == CHOOSE x \in S : \A y \in S : x <= y

\* np.max / np.min of a one-dimensional array
ArrMax(a) == SetMax({a[k] : k \in DOMAIN a})

ArrMin(a) == SetMin({a[k] : k \in DOMAIN a})

\* np.zeros(n)
Zeros(n) == [k \in 0..(n - 1) |-> 0]

ArgMax_asZero(a) == 0

\* np.argmax: the index of the first occurrence of the maximum
ArgMax(a) == SetMin({k \in DOMAIN a : a[k] = ArrMax(a)})

Minimum_asMaximum(a, b) == [k \in DOMAIN a |-> IF a[k] >= b[k] THEN a[k] ELSE b[k]]

\* np.minimum: the pointwise minimum of two arrays of one shape
Minimum(a, b) == [k \in DOMAIN a |-> IF a[k] <= b[k] THEN a[k] ELSE b[k]]

\* the square root of a non-negative integer, rounded down; exact on squares
ISqrt(c) == SetMax({r \in 0..c : r * r <= c})

RECURSIVE SumTo(_, _)
\* a[0] + ... + a[n-1]
SumTo(a, n) == IF n = 0 THEN 0 ELSE a[n - 1] + SumTo(a, n - 1)

\* np.sum of a one-dimensional array
ArrSum(a) == SumTo(a, Size(a))

\* getCSM(X, Y): the Euclidean cross-similarity matrix of the rows of X and Y
getCSM(X, Y) ==
    LET sq(v) == ArrSum([k \in DOMAIN v |-> v[k] * v[k]])
        dot(v, w) == ArrSum([k \in DOMAIN v |-> v[k] * w[k]])
        C(a, b) == sq(X[a]) + sq(Y[b]) - 2 * dot(X[a], Y[b])
    IN  [a \in DOMAIN X |-> [b \in DOMAIN Y |->
            ISqrt(IF C(a, b) < 0 THEN 0 ELSE C(a, b))]]

(***************************************************************************)
(* Furthest-point sampling: getGreedyPermDM and getGreedyPermEuclidean.    *)
(* In the frame, D is the N x N input of getGreedyPermDM, and the M x N    *)
(* array of landmark-to-data distances that getGreedyPermEuclidean fills;  *)
(* X is the point cloud of getGreedyPermEuclidean (empty for the other).   *)
(***************************************************************************)
\* int(0.05*M), the progress interval of the verbose branches
Interval(M) == (5 * M) \div 100

\* the frame of getGreedyPermDM(D, M, verbose) when it reaches its loop
GreedyStartDM(D, M, verbose) ==
    [fn |-> "getGreedyPermDM", X |-> <<>>, D |-> D, M |-> M, verbose |-> verbose,
     N |-> Size(D), perm |-> Zeros(M), lambdas |-> Zeros(M), ds |-> D[0],
     i |-> 1, pc |-> "loop", res |-> <<>>]

\* the frame of getGreedyPermEuclidean(X, M, verbose) when it reaches its loop
GreedyStartEuclidean(X, M, verbose) ==
    LET ds == getCSM([k \in {0} |-> X[0]], X)[0]
    IN  [fn |-> "getGreedyPermEuclidean", X |-> X,
         D |-> [k \in 0..(M - 1) |-> IF k = 0 THEN ds ELSE Zeros(Size(X))],
         M |-> M, verbose |-> verbose,
         N |-> Size(X), perm |-> Zeros(M), lambdas |-> Zeros(M), ds |-> ds,
         i |-> 1, pc |-> "loop", res |-> <<>>]

\* one iteration of  for i in range(1, M)
GreedyIterate(st) ==
    LET idx == ArgMax(st.ds)
        thisds == IF st.fn = "getGreedyPermDM"
                  THEN st.D[idx]
                  ELSE getCSM([k \in {0} |-> st.X[idx]], st.X)[0]
        body == [st EXCEPT !.perm[st.i] = idx,
                           !.lambdas[st.i] = st.ds[idx],
                           !.D = IF st.fn = "getGreedyPermDM" THEN @
                                 ELSE [@ EXCEPT ![st.i] = thisds],
                           !.ds = Minimum(st.ds, thisds)]
    IN  IF st.verbose /\ Interval(st.M) = 0
        THEN [body EXCEPT !.pc = "ZeroDivisionError"]
        ELSE [body EXCEPT !.i = st.i + 1]

\* the statements after the loop: index the landmarks and return
GreedyReturn(st) ==
    [st EXCEPT !.pc = "returned",
               !.res = IF st.fn = "getGreedyPermDM"
                       THEN [perm |-> st.perm, lambdas |-> st.lambdas,
                             DLandmarks |-> [k \in 0..(st.M - 1) |-> st.D[st.perm[k]]]]
                       ELSE [Y |-> [k \in 0..(st.M - 1) |-> st.X[st.perm[k]]],
                             perm |-> st.perm, lambdas |-> st.lambdas, D |-> st.D]]

\* the next step of a running sampler frame
GreedyStep(st) == IF st.i < st.M THEN GreedyIterate(st) ELSE GreedyReturn(st)

RECURSIVE GreedyRun(_)
\* a whole call of the sampler: the frame when it returns or raises
GreedyRun(st) == IF st.pc # "loop" THEN st ELSE GreedyRun(GreedyStep(st))

(***************************************************************************)
(* Inputs.                                                                 *)
(***************************************************************************)
Pairs(n) == {q \in (0..(n - 1)) \X (0..(n - 1)) : q[1] < q[2]}

\* the symmetric matrix with zero diagonal whose upper triangle is u
SymMatrix(n, u) ==
    [a \in 0..(n - 1) |-> [b \in 0..(n - 1) |->
        IF a = b THEN 0 ELSE IF a < b THEN u[<<a, b>>] ELSE u[<<b, a>>]]]

\* N x N symmetric non-negative distance matrices with zero diagonal
DistanceMatrices ==
    UNION {{SymMatrix(n, u) : u \in [Pairs(n) -> 0..MaxDist]} : n \in 1..MaxN}

\* N x 1 point clouds
PointClouds ==
    UNION {[0..(n - 1) -> [{0} -> 0..MaxCoord]] : n \in 1..MaxN}

\* landmark counts, one beyond the largest data size included
LandmarkCounts == 1..(MaxN + 1)

(***************************************************************************)
(* The sampler on its own.                                                 *)
(***************************************************************************)
GreedyInit ==
    /\ \E M \in LandmarkCounts, verbose \in BOOLEAN :
          \/ \E D \in DistanceMatrices : greedy = GreedyStartDM(D, M, verbose)
          \/ \E X \in PointClouds : greedy = GreedyStartEuclidean(X, M, verbose)
    /\ ppca = Idle
    /\ proj = Idle

GreedyLoop ==
    /\ greedy.pc = "loop"
    /\ greedy.i < greedy.M
    /\ greedy' = GreedyIterate(greedy)
    /\ UNCHANGED <<ppca, proj>>

GreedyExit ==
    /\ greedy.pc = "loop"
    /\ greedy.i >= greedy.M
    /\ greedy' = GreedyReturn(greedy)
    /\ UNCHANGED <<ppca, proj>>

GreedyNext == GreedyLoop \/ GreedyExit

SpecGreedy == GreedyInit /\ [][GreedyNext]_vars

(***************************************************************************)
(* Properties of the sampler.                                              *)
(***************************************************************************)
\* the data-to-data distances the sampler works with
FullDist(st) == IF st.fn = "getGreedyPermDM" THEN st.D ELSE getCSM(st.X, st.X)

\* the landmark-to-data distances a returned sampler hands back
LandData(st) == IF st.fn = "getGreedyPermDM" THEN st.res.DLandmarks ELSE st.res.D

\* symmetric, non-negative, zero diagonal, triangle inequality
IsMetric(d) ==
    \A a \in DOMAIN d, b \in DOMAIN d :
        /\ d[a][b] >= 0
        /\ d[a][b] = d[b][a]
        /\ d[a][a] = 0
        /\ \A c \in DOMAIN d : d[a][c] <= d[a][b] + d[b][c]

\* the largest distance from a data point to the nearest point of S
RadiusOf(d, S) ==
    SetMax({SetMin({d[s][p] : s \in S}) : p \in DOMAIN d})

\* the smallest covering radius of any L points of the data
OptRadius(d, L) ==
    SetMin({RadiusOf(d, S) : S \in {T \in SUBSET (DOMAIN d) : Cardinality(T) = L}})

\* the covering radius of the landmarks of a returned sampler
GreedyRadius(st) ==
    LET ld == LandData(st)
    IN  SetMax({SetMin({ld[k][p] : k \in DOMAIN ld}) : p \in 0..(st.N - 1)})

\* C2: for 1 <= L <= N the sampler returns L pairwise distinct indices, the
\* first of which is the seed index 0.
C2_DistinctFromSeed ==
    (greedy.pc = "returned" /\ greedy.M <= greedy.N) =>
        /\ Size(greedy.res.perm) = greedy.M
        /\ greedy.res.perm[0] = 0
        /\ \A a \in 0..(greedy.M - 1), b \in 0..(greedy.M - 1) :
              a # b => greedy.res.perm[a] # greedy.res.perm[b]

\* C5: when the landmark count exceeds the number of data points the sampler
\* reports a precondition violation: it does not return a result.
C5_TooManyLandmarksReported ==
    (greedy.pc # "idle" /\ greedy.M > greedy.N) => greedy.pc # "returned"

\* C9: on a finite metric with L <= N, the covering radius of the L greedy
\* landmarks is at most twice the smallest covering radius of any L points.
C9_TwoApproximation ==
    (greedy.pc = "returned" /\ greedy.M <= greedy.N /\ IsMetric(FullDist(greedy))) =>
        GreedyRadius(greedy) <= 2 * OptRadius(FullDist(greedy), greedy.M)

\* a metric on which the sampler returned landmarks whose covering radius is
\* exactly twice the optimum, the optimum being positive
C9_Witness ==
    /\ greedy.pc = "returned"
    /\ greedy.fn = "getGreedyPermDM"
    /\ greedy.M <= greedy.N
    /\ IsMetric(FullDist(greedy))
    /\ OptRadius(FullDist(greedy), greedy.M) > 0
    /\ GreedyRadius(greedy) = 2 * OptRadius(FullDist(greedy), greedy.M)

\* C10: the maximum of ds never grows from one selection to the next, so the
\* insertion radii lambdas[1], ..., lambdas[L-1] recorded so far are
\* non-increasing and the current maximum of ds is at most the last of them.
C10_RadiiNonIncreasing ==
    greedy.pc # "idle" =>
        LET done == IF greedy.pc = "ZeroDivisionError" THEN greedy.i ELSE greedy.i - 1
        IN  /\ \A a \in 1..done, b \in 1..done :
                  a < b => greedy.lambdas[a] >= greedy.lambdas[b]
            /\ done >= 1 => ArrMax(greedy.ds) <= greedy.lambdas[done]

\* a returned sampler whose recorded insertion radii strictly decrease
C10_Witness ==
    /\ greedy.pc = "returned"
    /\ greedy.M >= 3
    /\ greedy.lambdas[1] > greedy.lambdas[2]
    /\ greedy.lambdas[2] > 0

(***************************************************************************)
(* Principal Projective Component Analysis: PPCA, both variants.           *)
(*                                                                         *)
(* A matrix of the reduction is carried by its shape and its history:      *)
(* steps is the number of equator projections applied to class_map.T to    *)
(* obtain it, and nan tells whether its entries are NaN.                   *)
(***************************************************************************)
\* an N x L class map
ClassMapOf(N, L, nan) == [shape |-> <<N, L>>, steps |-> 0, nan |-> nan]

\* A.T
Transpose(A) == [A EXCEPT !.shape = <<A.shape[2], A.shape[1]>>]

\* Y = (U.T).dot(X); Y = Y[0:-1, :]; X = Y/np.sqrt(1-np.abs(y)**2)[None, :]
Reduce(A) == [A EXCEPT !.shape = <<A.shape[1] - 1, A.shape[2]>>, !.steps = A.steps + 1]

\* the value stored in the variance vector for a projection of A; np.zeros
\* entries that were never written have writes = 0
VarianceOf(A, old) == [writes |-> old.writes + 1, steps |-> A.steps, nan |-> A.nan]

\* the position Python reads for index k of an array of length n
PyIndex(n, k) == IF k < 0 THEN n + k ELSE k

\* the frame of PPCA(class_map, proj_dim, verbose) when it reaches its main loop
PPCAStart(variant, class_map, proj_dim, verbose) ==
    LET X == Transpose(class_map)
        n_dim == class_map.shape[2]
    IN  [variant |-> variant, proj_dim |-> proj_dim, verbose |-> verbose,
         X |-> X,
         variance |-> [k \in 0..(X.shape[1] - 2) |-> [writes |-> 0, steps |-> 0, nan |-> FALSE]],
         n_dim |-> n_dim,
         n_iter |-> IF variant = "root" THEN n_dim - proj_dim - 1 ELSE n_dim - 1,
         i |-> 0, i_bound |-> FALSE, j |-> 0,
         Z |-> X, XRet |-> X, XRet_None |-> TRUE,
         pc |-> "main", res |-> <<>>]

\* Project onto an "equator": the frames after one projection of the matrix
\* held in field f, writing the variance entry at Python index k.
\* linalg.eigh of a matrix with NaN entries either fails to converge or
\* hands back NaN, depending on the LAPACK build.
Project(st, f, k) ==
    LET A == IF f = "X" THEN st.X ELSE st.Z
        n == Size(st.variance)
        at == PyIndex(n, k)
        written == [st EXCEPT !.variance[at] = VarianceOf(A, @)]
        reduced == IF f = "X" THEN [written EXCEPT !.X = Reduce(A)]
                   ELSE [written EXCEPT !.Z = Reduce(A)]
    IN  IF at < 0 \/ at >= n
        THEN {[st EXCEPT !.pc = "IndexError"]}
        ELSE IF A.nan
        THEN {[st EXCEPT !.pc = "LinAlgError"], reduced}
        ELSE {reduced}

\* one iteration of the main loop of the root variant
PPCAMainRoot(st) ==
    IF st.verbose /\ Interval(st.n_dim) = 0
    THEN {[st EXCEPT !.i_bound = TRUE, !.pc = "ZeroDivisionError"]}
    ELSE {IF t.pc = "main" THEN [t EXCEPT !.i = st.i + 1, !.i_bound = TRUE]
          ELSE [t EXCEPT !.i_bound = TRUE] : t \in Project(st, "X", 0 - st.i - 1)}

PPCACoordsRoot_asOffByOne(st) ==
    IF st.verbose /\ ~st.i_bound
    THEN {[st EXCEPT !.pc = "NameError"]}
    ELSE IF st.verbose /\ Interval(st.n_dim) = 0
    THEN {[st EXCEPT !.pc = "ZeroDivisionError"]}
    ELSE {IF t.pc = "coords" THEN [t EXCEPT !.j = st.j + 1] ELSE t :
              t \in Project(st, "Z", st.proj_dim - st.j)}

\* one iteration of the coordinates loop of the root variant
PPCACoordsRoot(st) ==
    IF st.verbose /\ ~st.i_bound
    THEN {[st EXCEPT !.pc = "NameError"]}
    ELSE IF st.verbose /\ Interval(st.n_dim) = 0
    THEN {[st EXCEPT !.pc = "ZeroDivisionError"]}
    ELSE {IF t.pc = "coords" THEN [t EXCEPT !.j = st.j + 1] ELSE t :
              t \in Project(st, "Z", st.proj_dim - st.j - 1)}

\* if i == n_dim-proj_dim-2
PPCASnapshot(st) == st.i = st.n_dim - st.proj_dim - 2

\* one iteration of the single loop of the dreimac variant
PPCAMainDreimac(st) ==
    {IF t.pc # "main" THEN t
     ELSE IF PPCASnapshot(st)
     THEN [t EXCEPT !.i = st.i + 1, !.XRet = t.X, !.XRet_None = FALSE]
     ELSE [t EXCEPT !.i = st.i + 1] : t \in Project(st, "X", 0 - st.i - 1)}

\* the next frames of a running PPCA frame
PPCAStep(st) ==
    IF st.variant = "root"
    THEN IF st.pc = "main"
         THEN IF st.i < st.n_iter
              THEN PPCAMainRoot(st)
              ELSE {[st EXCEPT !.Z = st.X, !.pc = "coords"]}
         ELSE IF st.j < st.proj_dim
              THEN PPCACoordsRoot(st)
              ELSE {[st EXCEPT !.pc = "returned",
                               !.res = [variance |-> st.variance, X |-> st.X, Z |-> st.Z]]}
    ELSE IF st.i < st.n_iter
         THEN PPCAMainDreimac(st)
         ELSE IF st.XRet_None
              THEN {[st EXCEPT !.pc = "AttributeError"]}
              ELSE {[st EXCEPT !.pc = "returned",
                               !.res = [variance |-> st.variance, X |-> Transpose(st.XRet)]]}

PPCARunning(st) == st.pc \in {"main", "coords"}

RECURSIVE PPCARun(_)
\* a whole call of PPCA: the frames in which it can return or raise
PPCARun(st) ==
    IF ~PPCARunning(st) THEN {st} ELSE UNION {PPCARun(t) : t \in PPCAStep(st)}

(***************************************************************************)
(* PPCA on its own.                                                        *)
(***************************************************************************)
Variants == {"root", "dreimac"}

PPCAInit ==
    /\ \E variant \in Variants, N \in 1..MaxN, L \in 1..MaxL, verbose \in BOOLEAN :
          \E proj_dim \in 0..(L - 1) :
              ppca = PPCAStart(variant, ClassMapOf(N, L, FALSE), proj_dim, verbose)
    /\ greedy = Idle
    /\ proj = Idle

PPCAMainLoop ==
    /\ ppca.pc = "main"
    /\ ppca.i < ppca.n_iter
    /\ ppca' \in PPCAStep(ppca)
    /\ UNCHANGED <<greedy, proj>>

PPCAMainExit ==
    /\ ppca.pc = "main"
    /\ ppca.i >= ppca.n_iter
    /\ ppca' \in PPCAStep(ppca)
    /\ UNCHANGED <<greedy, proj>>

PPCACoordsLoop ==
    /\ ppca.pc = "coords"
    /\ ppca.j < ppca.proj_dim
    /\ ppca' \in PPCAStep(ppca)
    /\ UNCHANGED <<greedy, proj>>

PPCACoordsExit ==
    /\ ppca.pc = "coords"
    /\ ppca.j >= ppca.proj_dim
    /\ ppca' \in PPCAStep(ppca)
    /\ UNCHANGED <<greedy, proj>>

PPCANext == PPCAMainLoop \/ PPCAMainExit \/ PPCACoordsLoop \/ PPCACoordsExit

SpecPPCA == PPCAInit /\ [][PPCANext]_vars

\* the number of coordinates per data point of the matrix PPCA returned
CoordsPerPoint(st) ==
    IF st.variant = "root" THEN st.res.X.shape[1] ELSE st.res.X.shape[2]

\* C4: called quietly with 0 <= proj_dim and proj_dim + 1 <= L, PPCA returns
\* proj_dim + 1 coordinates per data point, taken from the working matrix
\* when its ambient dimension is proj_dim + 1 (after L - proj_dim - 1
\* projections), and a variance vector of length L - 1.
C4_ReturnsSnapshot ==
    (ppca.pc \notin {"idle", "main", "coords"} /\ ~ppca.verbose
        /\ ppca.proj_dim + 1 <= ppca.n_dim) =>
        /\ ppca.pc = "returned"
        /\ CoordsPerPoint(ppca) = ppca.proj_dim + 1
        /\ ppca.res.X.steps = ppca.n_dim - (ppca.proj_dim + 1)
        /\ Size(ppca.res.variance) = ppca.n_dim - 1

\* the number of equator projections a PPCA frame has performed
StepsDone(st) ==
    IF st.Z.steps > st.X.steps THEN st.Z.steps ELSE st.X.steps

\* C12: for L >= 2 and 0 <= proj_dim <= L-2 both variants perform the same
\* L-1 reduction steps in the same order: step k (k = 0..L-2) writes variance
\* index L-2-k, every entry is written exactly once, and the coordinate
\* matrix returned is the working matrix after step k = L-proj_dim-2.
C12_SameReductionSteps ==
    (ppca.pc # "idle" /\ ppca.n_dim >= 2 /\ ppca.proj_dim <= ppca.n_dim - 2) =>
        LET L == ppca.n_dim
        IN  /\ \A idx \in 0..(L - 2) :
                  IF L - 2 - idx < StepsDone(ppca)
                  THEN /\ ppca.variance[idx].writes = 1
                       /\ ppca.variance[idx].steps = L - 2 - idx
                  ELSE ppca.variance[idx].writes = 0
            /\ ppca.pc = "returned" =>
                  /\ StepsDone(ppca) = L - 1
                  /\ ppca.res.variance = ppca.variance
                  /\ ppca.res.X.steps = (L - ppca.proj_dim - 2) + 1

\* a returned root PPCA both of whose loops iterated
C12_Witness ==
    /\ ppca.pc = "returned"
    /\ ppca.variant = "root"
    /\ ppca.n_iter >= 1
    /\ ppca.proj_dim >= 1
    /\ ppca.i = ppca.n_iter
    /\ ppca.j = ppca.proj_dim

(***************************************************************************)
(* ProjCoords, both variants.                                              *)
(*                                                                         *)
(* Real numbers are exact fixed-point values: the integer x stands for     *)
(* x / Unit.  Distances and diagram values are whole numbers, perc is a    *)
(* multiple of 1 / PercDen, so every product and half below is exact.      *)
(***************************************************************************)
Unit == 2 * PercDen

FromInt(n) == n * Unit

\* a * b
Mul(a, b) == (a * b) \div Unit

\* a / 2.0
Halve(a) == a \div 2

\* a * 2
Double(a) == a * 2

\* the values perc can take, from 0 to 1
Percs == {FromInt(p) \div PercDen : p \in 0..PercDen}

\* np.min(A, 1): the minimum of every row of a matrix
MinAxis1(A) == [j \in DOMAIN A |-> ArrMin(A[j])]

\* np.min(A, 0): the minimum of every column of a matrix with ncols columns
MinAxis0(A, ncols) == [i \in 0..(ncols - 1) |-> SetMin({A[j][i] : j \in DOMAIN A})]

ArgSorts_asDescending(keys) ==
    {q \in [DOMAIN keys -> DOMAIN keys] :
        /\ \A a \in DOMAIN keys, b \in DOMAIN keys : a # b => q[a] # q[b]
        /\ \A a \in DOMAIN keys, b \in DOMAIN keys : a < b => keys[q[a]] >= keys[q[b]]}

\* np.argsort: the orders that sort the keys ascending; the default sort is
\* not stable, so equal keys may come in either order
ArgSorts(keys) ==
    {q \in [DOMAIN keys -> DOMAIN keys] :
        /\ \A a \in DOMAIN keys, b \in DOMAIN keys : a # b => q[a] # q[b]
        /\ \A a \in DOMAIN keys, b \in DOMAIN keys : a < b => keys[q[a]] <= keys[q[b]]}

\* 1-dimensional diagrams the cohomology oracle can hand back: up to
\* MaxClasses rows (birth, death) with birth <= death
DiagramRows == {r \in (0..MaxDist) \X (0..MaxDist) : r[1] <= r[2]}

Diagrams ==
    UNION {[0..(n - 1) -> {<<FromInt(r[1]), FromInt(r[2])>> : r \in DiagramRows}] :
               n \in 0..MaxClasses}

\* the lists cocycle_idx of one or two class ranks
CocycleIdxLists ==
    UNION {[0..(n - 1) -> 0..(MaxClasses - 1)] : n \in 1..2}

\* the frame of ProjCoords when it reaches Step 1
ProjStart(variant, P, n_landmarks, distance_matrix, verbose) ==
    [variant |-> variant, P |-> P, n_landmarks |-> n_landmarks,
     distance_matrix |-> distance_matrix, verbose |-> verbose,
     n_data |-> Size(P), pc |-> "step1"]

\* Step 1: Compute greedy permutation
ProjStep1(st) ==
    LET g == IF st.distance_matrix
             THEN GreedyRun(GreedyStartDM(st.P, st.n_landmarks, st.verbose))
             ELSE GreedyRun(GreedyStartEuclidean(st.P, st.n_landmarks, st.verbose))
        perm == g.res.perm
        L == 0..(st.n_landmarks - 1)
    IN  IF g.pc # "returned"
        THEN [st EXCEPT !.pc = g.pc]
        ELSE IF st.distance_matrix
        THEN [pc |-> "step2", perm |-> perm, dist_land_data |-> g.res.DLandmarks,
              dist_land_land |-> [a \in L |-> [b \in L |-> st.P[perm[a]][perm[b]]]]] @@ st
        ELSE [pc |-> "step2", Y |-> g.res.Y, dist_land_data |-> g.res.D,
              dist_land_land |-> getCSM(g.res.Y, g.res.Y)] @@ st

\* Step 2 of the root variant: the most persistent class of the diagram dgms
\* the oracle handed back.  The combined cocycle is kept as the list of the
\* classes whose representative cocycles were added.
ProjStep2Root(st, dgms) ==
    LET dgm1 == dgms
        pers == [c \in DOMAIN dgm1 |-> dgm1[c][2] - dgm1[c][1]]
    IN  IF Size(dgm1) = 0
        THEN {[pc |-> "ValueError", dgms |-> dgms] @@ st}
        ELSE {[pc |-> "step3", dgms |-> dgms, dgm1 |-> dgm1, idx_mp1 |-> ArgMax(pers),
               cocycle |-> <<ArgMax(pers)>>] @@ st}

\* cohomdeath = max(cohomdeath, dgm1[idx_p1[cocycle_idx[k]], 0]) over the loop
CohomDeath(dgm1, idx_p1, cocycle_idx) ==
    SetMax({dgm1[idx_p1[cocycle_idx[k]]][1] : k \in DOMAIN cocycle_idx})

\* cohombirth = min(cohombirth, dgm1[idx_p1[cocycle_idx[k]], 1]) over the loop
CohomBirth(dgm1, idx_p1, cocycle_idx) ==
    SetMin({dgm1[idx_p1[cocycle_idx[k]]][2] : k \in DOMAIN cocycle_idx})

\* Step 2 of the dreimac variant: halve the diagram, order the classes by
\* persistence and combine the classes cocycle_idx names
ProjStep2Dreimac(st, dgms, cocycle_idx) ==
    LET dgm1 == [c \in DOMAIN dgms |-> <<Halve(dgms[c][1]), Halve(dgms[c][2])>>]
        keys == [c \in DOMAIN dgm1 |-> dgm1[c][1] - dgm1[c][2]]
    IN  {IF \E k \in DOMAIN cocycle_idx : cocycle_idx[k] >= Size(idx_p1)
         THEN [pc |-> "IndexError", dgms |-> dgms, cocycle_idx |-> cocycle_idx] @@ st
         ELSE [pc |-> "step3", dgms |-> dgms, dgm1 |-> dgm1, idx_p1 |-> idx_p1,
               cocycle_idx |-> cocycle_idx,
               cocycle |-> [k \in 1..Size(cocycle_idx) |-> idx_p1[cocycle_idx[k - 1]]],
               cohomdeath |-> CohomDeath(dgm1, idx_p1, cocycle_idx),
               cohombirth |-> CohomBirth(dgm1, idx_p1, cocycle_idx)] @@ st :
         idx_p1 \in ArgSorts(keys)}

\* coverage = np.max(np.min(dist_land_data, 1))
Coverage(dist_land_data) == FromInt(ArrMax(MinAxis1(dist_land_data)))

\* the larger of two numbers
Max2(a, b) == IF a >= b THEN a ELSE b

\* (1-perc)*max(death, coverage) + perc*birth
Interpolate(perc, death, coverage, birth) ==
    Mul(FromInt(1) - perc, Max2(death, coverage)) + Mul(perc, birth)

\* Step 3: Determine radius for balls (r_birth in the root variant, r_cover
\* in the dreimac variant)
ProjStep3(st, perc) ==
    LET coverage == Coverage(st.dist_land_data)
        r == IF st.variant = "root"
             THEN Interpolate(perc, st.dgm1[st.idx_mp1][1], coverage, st.dgm1[st.idx_mp1][2])
             ELSE Interpolate(perc, st.cohomdeath, coverage, st.cohombirth)
    IN  [pc |-> "step4", perc |-> perc, coverage |-> coverage, r_cover |-> r] @@ st

\* the column of landmark j's ball memberships: 1 where U[j, i], else 0
Covers(st, j, i) == FromInt(st.dist_land_data[j][i]) < st.r_cover

\* Step 4: Create the open covering and partition of unity.  An entry of
\* varphi is kept as the quotient phi / column sum; 0 / 0 is NaN.
ProjStep4(st) ==
    LET L == 0..(st.n_landmarks - 1)
        N == 0..(st.n_data - 1)
        phi == [j \in L |-> [i \in N |->
                   IF Covers(st, j, i)
                   THEN st.r_cover - FromInt(st.dist_land_data[j][i]) ELSE 0]]
        colsum == [i \in N |-> ArrSum([j \in L |-> phi[j][i]])]
    IN  [pc |-> "step5",
         varphi |-> [j \in L |-> [i \in N |-> [num |-> phi[j][i], den |-> colsum[i]]]],
         ball_indx |-> [i \in N |-> ArgMax([j \in L |-> IF Covers(st, j, i) THEN 1 ELSE 0])]]
        @@ st

\* 0 / 0
IsNaN(q) == q.den = 0

\* Step 5: apply the classifying map.  Entry (i, j) of class_map is
\* sqrt(varphi[j, i]) * cocycle_matrix[ball_indx[i], j], kept unevaluated.
ProjStep5(st) ==
    [pc |-> "ppca",
     class_map |-> [i \in 0..(st.n_data - 1) |-> [j \in 0..(st.n_landmarks - 1) |->
                      [root |-> st.varphi[j][i], sign |-> <<st.ball_indx[i], j>>]]]]
    @@ st

\* whether a class map holds a NaN
HasNaN(class_map) ==
    \E i \in DOMAIN class_map : \E j \in DOMAIN class_map[i] : IsNaN(class_map[i][j].root)

\* res = PPCA(class_map, proj_dim, verbose) and the statements after it: the
\* root variant plots and returns nothing, the dreimac variant returns res
ProjReduce(st, proj_dim) ==
    LET cm == ClassMapOf(st.n_data, st.n_landmarks, HasNaN(st.class_map))
    IN  {IF t.pc # "returned"
         THEN [pc |-> t.pc, proj_dim |-> proj_dim] @@ st
         ELSE IF st.variant = "root"
         THEN [pc |-> "returned", proj_dim |-> proj_dim, res |-> <<>>] @@ st
         ELSE [pc |-> "returned", proj_dim |-> proj_dim,
               res |-> [variance |-> t.res.variance, X |-> t.res.X,
                        cocycle |-> st.cocycle,
                        dist_land_land |-> st.dist_land_land,
                        dist_land_data |-> st.dist_land_data,
                        dgm1 |-> [c \in DOMAIN st.dgm1 |->
                                     <<Double(st.dgm1[c][1]), Double(st.dgm1[c][2])>>],
                        idx_p1 |-> st.idx_p1, perm |-> st.perm]] @@ st :
         t \in PPCARun(PPCAStart(st.variant, cm, proj_dim, st.verbose))}

(***************************************************************************)
(* ProjCoords as a state machine.  The dreimac variant is run on distance  *)
(* matrices: its point-cloud branch calls get_greedy_perm of CSMSSMTools.  *)
(***************************************************************************)
ProjInit ==
    /\ \E n_landmarks \in LandmarkCounts, verbose \in BOOLEAN :
          \/ \E variant \in Variants, P \in DistanceMatrices :
                proj = ProjStart(variant, P, n_landmarks, TRUE, verbose)
          \/ \E P \in PointClouds :
                proj = ProjStart("root", P, n_landmarks, FALSE, verbose)
    /\ greedy = Idle
    /\ ppca = Idle

ProjGreedy ==
    /\ proj.pc = "step1"
    /\ proj' = ProjStep1(proj)
    /\ UNCHANGED <<greedy, ppca>>

ProjCohomologyRoot ==
    /\ proj.pc = "step2"
    /\ proj.variant = "root"
    /\ \E dgms \in Diagrams : proj' \in ProjStep2Root(proj, dgms)
    /\ UNCHANGED <<greedy, ppca>>

ProjCohomologyDreimac ==
    /\ proj.pc = "step2"
    /\ proj.variant = "dreimac"
    /\ \E dgms \in Diagrams, cocycle_idx \in CocycleIdxLists :
          proj' \in ProjStep2Dreimac(proj, dgms, cocycle_idx)
    /\ UNCHANGED <<greedy, ppca>>

ProjRadius ==
    /\ proj.pc = "step3"
    /\ \E perc \in Percs : proj' = ProjStep3(proj, perc)
    /\ UNCHANGED <<greedy, ppca>>

ProjPartition ==
    /\ proj.pc = "step4"
    /\ proj' = ProjStep4(proj)
    /\ UNCHANGED <<greedy, ppca>>

ProjClassMap ==
    /\ proj.pc = "step5"
    /\ proj' = ProjStep5(proj)
    /\ UNCHANGED <<greedy, ppca>>

ProjPPCA ==
    /\ proj.pc = "ppca"
    /\ \E proj_dim \in 0..(proj.n_landmarks - 1) : proj' \in ProjReduce(proj, proj_dim)
    /\ UNCHANGED <<greedy, ppca>>

ProjNext ==
    \/ ProjGreedy
    \/ ProjCohomologyRoot
    \/ ProjCohomologyDreimac
    \/ ProjRadius
    \/ ProjPartition
    \/ ProjClassMap
    \/ ProjPPCA

SpecProj == ProjInit /\ [][ProjNext]_vars

(***************************************************************************)
(* Properties of ProjCoords.                                               *)
(***************************************************************************)
\* the frame has gone through Step 3 (it holds coverage and the cover radius)
HasRadius(st) == "r_cover" \in DOMAIN st

\* the frame has gone through Step 4 (it holds varphi and ball_indx)
HasPartition(st) == "varphi" \in DOMAIN st

\* data point i lies in no landmark ball of the cover radius
Uncovered(st, i) == \A j \in 0..(st.n_landmarks - 1) : ~Covers(st, j, i)

\* C1: coverage is the maximum over the data points of the minimum over the
\* landmarks of the landmark-to-data distance.
C1_CoverageIsMaxMin ==
    HasRadius(proj) =>
        proj.coverage = FromInt(ArrMax(MinAxis0(proj.dist_land_data, proj.n_data)))

\* C3: when the cover radius leaves a data point uncovered, ProjCoords
\* stops with a report; it does not divide by the zero column sum and go on
\* to the classifying map and PPCA.
C3_UncoveredPointReported ==
    (HasRadius(proj) /\ \E i \in 0..(proj.n_data - 1) : Uncovered(proj, i)) =>
        ~HasPartition(proj)

\* C6: when the selected classes' intervals do not overlap (largest selected
\* birth above smallest selected death), ProjCoords reports a usage error
\* and computes no cover radius from them.
C6_DisjointIntervalsReported ==
    (proj.variant = "dreimac" /\ "cohomdeath" \in DOMAIN proj
        /\ proj.cohomdeath > proj.cohombirth) => ~HasRadius(proj)

\* C7: in both variants the diagram whose births and deaths enter the radius
\* formula is the oracle's diagram halved, and the diagram reported in the
\* result is the oracle's diagram unchanged.
C7_HalvedThenDoubled ==
    /\ "dgm1" \in DOMAIN proj =>
          \A c \in DOMAIN proj.dgms : \A k \in 1..2 :
              proj.dgm1[c][k] = Halve(proj.dgms[c][k])
    /\ proj.pc = "returned" =>
          /\ "dgm1" \in DOMAIN proj.res
          /\ proj.res.dgm1 = proj.dgms

\* C8: for every data point i, the representative index is the smallest
\* landmark index whose ball holds i, so i lies in the ball it names.
C8_FirstCoveringLandmark ==
    HasPartition(proj) =>
        \A i \in 0..(proj.n_data - 1) :
            /\ Covers(proj, proj.ball_indx[i], i)
            /\ \A j \in 0..(proj.n_landmarks - 1) :
                  Covers(proj, j, i) => proj.ball_indx[i] <= j

(***************************************************************************)
(* The class selection of the dreimac ProjCoords (Steps 1 and 2) on its    *)
(* own: every diagram and every list cocycle_idx, on small data.           *)
(***************************************************************************)
SelectInit ==
    /\ \E P \in {D \in DistanceMatrices : Size(D) <= MaxSelectN}, verbose \in BOOLEAN :
          \E n_landmarks \in 1..(Size(P) + 1) :
              proj = ProjStart("dreimac", P, n_landmarks, TRUE, verbose)
    /\ greedy = Idle
    /\ ppca = Idle

SelectNext == ProjGreedy \/ ProjCohomologyDreimac

SpecSelect == SelectInit /\ [][SelectNext]_vars

\* death - birth of class c of the oracle's diagram
Persistence(st, c) == st.dgms[c][2] - st.dgms[c][1]

\* the classes the entries of cocycle_idx select
SelectedClasses(st) == {st.idx_p1[st.cocycle_idx[k]] : k \in DOMAIN st.cocycle_idx}

\* C11: idx_p1 orders the classes by persistence from largest to smallest,
\* entry k of cocycle_idx selects the class of rank cocycle_idx[k] in that
\* order, and cohomdeath is the maximum birth, cohombirth the minimum death
\* over exactly the selected classes.
C11_SelectsByPersistence ==
    (proj.variant = "dreimac" /\ "cohomdeath" \in DOMAIN proj) =>
        LET classes == DOMAIN proj.dgms
        IN  /\ \A a \in classes, b \in classes : a # b => proj.idx_p1[a] # proj.idx_p1[b]
            /\ \A a \in classes, b \in classes :
                  a < b => Persistence(proj, proj.idx_p1[a]) >= Persistence(proj, proj.idx_p1[b])
            /\ \A k \in DOMAIN proj.cocycle_idx :
                  LET c == proj.cocycle[k + 1]
                      r == proj.cocycle_idx[k]
                  IN  /\ c = proj.idx_p1[r]
                      /\ Cardinality({d \in classes :
                              Persistence(proj, d) > Persistence(proj, c)}) <= r
                      /\ Cardinality({d \in classes :
                              Persistence(proj, d) >= Persistence(proj, c)}) >= r + 1
            /\ proj.cohomdeath = SetMax({proj.dgm1[c][1] : c \in SelectedClasses(proj)})
            /\ proj.cohombirth = SetMin({proj.dgm1[c][2] : c \in SelectedClasses(proj)})

\* two classes, the later one the more persistent, both selected; the
\* largest birth and the smallest death come from different classes
C11_Witness ==
    /\ proj.variant = "dreimac"
    /\ "cohomdeath" \in DOMAIN proj
    /\ Size(proj.dgms) = 2
    /\ Persistence(proj, 1) > Persistence(proj, 0)
    /\ proj.cocycle_idx = [k \in 0..1 |-> k]
    /\ proj.cocycle = <<1, 0>>
    /\ proj.cohomdeath = proj.dgm1[0][1]
    /\ proj.cohombirth = proj.dgm1[1][2]
    /\ proj.dgm1[0][1] > proj.dgm1[1][1]
    /\ proj.dgm1[1][2] < proj.dgm1[0][2]

(***************************************************************************)
(* The verbosity flag.                                                     *)
(***************************************************************************)
\* the frame in which the sampler call of frame st ends when called quietly
QuietGreedy(st) ==
    IF st.fn = "getGreedyPermDM"
    THEN GreedyRun(GreedyStartDM(st.D, st.M, FALSE))
    ELSE GreedyRun(GreedyStartEuclidean(st.X, st.M, FALSE))

\* the frames in which the PPCA call of frame st ends when called quietly
QuietPPCA(st) ==
    PPCARun(PPCAStart(st.variant, ClassMapOf(st.X.shape[2], st.n_dim, st.X.nan),
                      st.proj_dim, FALSE))

\* C13: with verbose=True the samplers and the root PPCA raise nothing and
\* return what they return with verbose=False.
C13_VerboseOnlyPrints ==
    /\ (greedy.pc # "idle" /\ greedy.verbose) =>
          /\ greedy.pc \in {"loop", "returned"}
          /\ greedy.pc = "returned" => greedy.res = QuietGreedy(greedy).res
    /\ (ppca.pc # "idle" /\ ppca.variant = "root" /\ ppca.verbose) =>
          /\ ppca.pc \in {"main", "coords", "returned"}
          /\ ppca.pc = "returned" => \E t \in QuietPPCA(ppca) : ppca.res = t.res

====
